---- MODULE Spec2Model ----
(***************************************************************************)
(* A model of UserAssistParser.py: decoding of UserAssist registry values  *)
(* (raw_data_parser, convert_filetime), resolution of known-folder GUIDs   *)
(* (resolve_guid) and the run of main (get_key, write_output).             *)
(*                                                                         *)
(* Python integers are unbounded and the program handles 32-bit and 64-bit *)
(* unsigned fields, so integers of the program are modelled as sequences   *)
(* of bytes, least significant first (the empty sequence is 0).  Text is a *)
(* sequence of one-character strings.                                      *)
(***************************************************************************)
EXTENDS Integers, Sequences, FiniteSets, TLC

----------------------------------------------------------------------------
(* Unbounded naturals as little-endian sequences of bytes (base-256        *)
(* digits): the layout struct.unpack('<I') and '<Q' read.                   *)

Max(a, b) == IF a >= b THEN a ELSE b

Min(a, b) == IF a <= b THEN a ELSE b

\* a without its high zero digits
Norm(a) ==
  IF \A i \in 1..Len(a) : a[i] = 0 THEN <<>>
  ELSE SubSeq(a, 1, CHOOSE i \in 1..Len(a) :
                      a[i] # 0 /\ \A j \in (i + 1)..Len(a) : a[j] = 0)

RECURSIVE FromNat(_)
FromNat(n) == IF n = 0 THEN <<>> ELSE <<n % 256>> \o FromNat(n \div 256)

RECURSIVE NatOf(_)
\* the value of a, for a that fits a machine word
NatOf(a) == IF a = <<>> THEN 0 ELSE a[1] + 256 * NatOf(Tail(a))

Digit(a, i) == IF i >= 1 /\ i <= Len(a) THEN a[i] ELSE 0

RECURSIVE AddFrom(_, _, _, _)
AddFrom(a, b, i, c) ==
  IF i > Max(Len(a), Len(b)) THEN (IF c = 1 THEN <<1>> ELSE <<>>)
  ELSE LET s == Digit(a, i) + Digit(b, i) + c
       IN  <<s % 256>> \o AddFrom(a, b, i + 1, s \div 256)

Add(a, b) == Norm(AddFrom(a, b, 1, 0))

RECURSIVE SubFrom(_, _, _, _)
SubFrom(a, b, i, br) ==
  IF i > Len(a) THEN <<>>
  ELSE LET d == Digit(a, i) - Digit(b, i) - br
       IN  <<d % 256>> \o SubFrom(a, b, i + 1, IF d < 0 THEN 1 ELSE 0)

\* a - b for a >= b
Sub(a, b) == Norm(SubFrom(a, b, 1, 0))

\* -1, 0 or 1 as a < b, a = b or a > b
Cmp(a, b) ==
  LET n == Max(Len(a), Len(b))
      differ == {i \in 1..n : Digit(a, i) # Digit(b, i)}
  IN  IF differ = {} THEN 0
      ELSE LET top == CHOOSE i \in differ : \A j \in differ : j <= i
           IN  IF Digit(a, top) < Digit(b, top) THEN -1 ELSE 1

RECURSIVE MulFrom(_, _, _, _)
MulFrom(a, m, i, c) ==
  IF i > Len(a) THEN FromNat(c)
  ELSE LET t == a[i] * m + c
       IN  <<t % 256>> \o MulFrom(a, m, i + 1, t \div 256)

\* a * m for a machine-sized m, 0 <= m < 2^23
MulSmall(a, m) == Norm(MulFrom(a, m, 1, 0))

RECURSIVE DivAt(_, _, _, _)
\* Long division, digit i down to digit 1, with r the remainder so far;
\* each digit is divided in two halves of four bits so that no
\* intermediate value exceeds 16 * d.
DivAt(a, d, i, r) ==
  IF i = 0 THEN <<<<>>, r>>
  ELSE LET t1 == 16 * r + a[i] \div 16
           t2 == 16 * (t1 % d) + (a[i] % 16)
           rest == DivAt(a, d, i - 1, t2 % d)
       IN  <<Append(rest[1], 16 * (t1 \div d) + t2 \div d), rest[2]>>

NormQuot(qr) == <<Norm(qr[1]), qr[2]>>

\* <<a div d, a mod d>> for a machine-sized d, 0 < d < 2^27: the quotient
\* is a digit sequence, the remainder a number.
DivMod(a, d) == NormQuot(DivAt(a, d, Len(a), 0))

\* the number of bits of a with no high zero digit
TopBits(x) ==
  IF x = <<>> THEN 0
  ELSE 8 * (Len(x) - 1) + (CHOOSE k \in 1..8 :
                             2^(k - 1) <= x[Len(x)] /\ x[Len(x)] < 2^k)

\* the number of bits of a
BitLen(a) == TopBits(Norm(a))

\* bit i of a, bit 1 the least significant
Bit(a, i) ==
  IF i < 1 THEN 0 ELSE (Digit(a, (i - 1) \div 8 + 1) \div 2^((i - 1) % 8)) % 2

\* a * 2^k
ShiftL(a, k) ==
  IF Norm(a) = <<>> THEN <<>>
  ELSE [i \in 1..(k \div 8) |-> 0] \o MulSmall(a, 2^(k % 8))

\* a div 2^k
ShiftR(a, k) ==
  IF k \div 8 >= Len(a) THEN <<>>
  ELSE DivMod(SubSeq(a, k \div 8 + 1, Len(a)), 2^(k % 8))[1]

\* a mod 2^k
LowBits(a, k) ==
  Norm([i \in 1..Min(Len(a), (k + 7) \div 8) |->
          IF i <= k \div 8 THEN a[i] ELSE a[i] % 2^(k % 8)])

\* m0 or m0 + 1: m0 is a quotient whose first lost bit is guard, lost says
\* that a later lost bit was set; round to nearest, ties to even
RoundTo(m0, guard, lost) ==
  IF guard = 1 /\ (lost \/ Bit(m0, 1) = 1) THEN Add(m0, <<1>>) ELSE m0

\* a / 2^drop rounded to the nearest integer, ties to even; sticky says
\* that digits below those of a were lost and were not all zero.
RoundShift(a, drop, sticky) ==
  RoundTo(ShiftR(a, drop), Bit(a, drop), sticky \/ LowBits(a, drop - 1) # <<>>)

\* Signed integers: a sign and a magnitude.
Int_(neg, mag) == [neg |-> neg /\ Norm(mag) # <<>>, mag |-> Norm(mag)]

\* a - b for naturals a, b, as a signed integer
IntSub(a, b) ==
  IF Cmp(a, b) >= 0 THEN Int_(FALSE, Sub(a, b)) ELSE Int_(TRUE, Sub(b, a))

----------------------------------------------------------------------------
(* IEEE-754 binary64 values: sign, a 53-bit significand man (empty for 0)  *)
(* and an exponent: the value is man * 2^exp.                              *)

MantissaBits == 53

\* the binary64 value of significand m (of 53 bits, or of 54 after a
\* rounding carried) and exponent e
Binary64(neg, m, e) ==
  IF BitLen(m) > MantissaBits
  THEN [neg |-> neg, man |-> ShiftR(m, 1), exp |-> e + 1]
  ELSE [neg |-> neg, man |-> m, exp |-> e]

\* the quotient qr[1] and remainder qr[2] of (mag * 2^sh) by d, rounded
\* to 53 bits
RoundQuot(neg, qr, sh) ==
  Binary64(neg, RoundShift(qr[1], BitLen(qr[1]) - MantissaBits, qr[2] # 0),
           BitLen(qr[1]) - MantissaBits - sh)

TrueDivShifted(n, d, sh) == RoundQuot(n.neg, DivMod(ShiftL(n.mag, sh), d), sh)

\* Python's int / int for a machine-sized divisor d: the quotient
\* correctly rounded to binary64.
TrueDiv(n, d) ==
  IF n.mag = <<>> THEN [neg |-> FALSE, man |-> <<>>, exp |-> 0]
  ELSE TrueDivShifted(n, d, Max(0, MantissaBits + 1 + BitLen(FromNat(d))
                                     - BitLen(n.mag)))

----------------------------------------------------------------------------
(* Results of Python calls: a returned value, or a raised exception.       *)

Returned(v) == [exc |-> "none", val |-> v]

Raised(e) == [exc |-> e, val |-> <<>>]

----------------------------------------------------------------------------
(* datetime.utcfromtimestamp and strftime (CPython 3.6+, POSIX gmtime).    *)

MICROSECONDS == 1000000

SECONDS_PER_DAY == 86400

MINYEAR == 1

MAXYEAR == 9999

\* modf(x): the integer part and the digits of the fraction (times 2^-exp)
IntPart(x) == IF x.exp >= 0 THEN ShiftL(x.man, x.exp) ELSE ShiftR(x.man, -x.exp)

FracPart(x) == IF x.exp >= 0 THEN <<>> ELSE LowBits(x.man, -x.exp)

\* v * 2^e rounded half-even to an integer
RoundToInt(v, e) ==
  NatOf(IF e >= 0 THEN ShiftL(v, e) ELSE RoundShift(v, -e, FALSE))

\* the binary64 product p * 2^e (p rounded to 53 bits), then rounded
\* half-even to an integer
RoundProduct(p, e) ==
  IF BitLen(p) > MantissaBits
  THEN RoundToInt(RoundShift(p, BitLen(p) - MantissaBits, FALSE),
                  e + BitLen(p) - MantissaBits)
  ELSE RoundToInt(p, e)

\* the fraction of x times 10^6, rounded half-even (the magnitude)
Microseconds(x) == RoundProduct(MulSmall(FracPart(x), MICROSECONDS), x.exp)

\* a fraction that rounds to a full second, or any fraction of a negative
\* x, carries into the seconds
CarrySeconds(neg, ip, us) ==
  IF ~neg
  THEN Int_(FALSE, IF us >= MICROSECONDS THEN Add(ip, <<1>>) ELSE ip)
  ELSE Int_(TRUE, IF us > 0 THEN Add(ip, <<1>>) ELSE ip)

\* The timestamp x as whole seconds: modf splits x, the fraction times 10^6
\* is rounded half-even to microseconds, and a fraction that rounds to a
\* full second carries into the seconds (_PyTime_DoubleToDenominator).
\* The result is the signed second count; the microseconds are not printed
\* by the format of convert_filetime.
TimestampSeconds(x) == CarrySeconds(x.neg, IntPart(x), Microseconds(x))

CivilDate(y, m, d) == <<y + (IF m <= 2 THEN 1 ELSE 0), m, d>>

CivilFromMp(y, doy, mp) ==
  CivilDate(y, IF mp < 10 THEN mp + 3 ELSE mp - 9, doy - (153 * mp + 2) \div 5 + 1)

CivilFromDoy(y, doy) == CivilFromMp(y, doy, (5 * doy + 2) \div 153)

CivilFromYoe(era, doe, yoe) ==
  CivilFromDoy(yoe + era * 400, doe - (365 * yoe + yoe \div 4 - yoe \div 100))

CivilFromEra(era, doe) ==
  CivilFromYoe(era, doe,
               (doe - doe \div 1460 + doe \div 36524 - doe \div 146096) \div 365)

\* Days since 1970-01-01 to <<year, month, day>> in the proleptic Gregorian
\* calendar, for days >= -719468.
CivilFromDays(days) ==
  CivilFromEra((days + 719468) \div 146097, (days + 719468) % 146097)

BrokenDown(ymd, sod) ==
  IF ymd[1] < MINYEAR \/ ymd[1] > MAXYEAR THEN Raised("ValueError")
  ELSE Returned(<<ymd[1], ymd[2], ymd[3], sod \div 3600, (sod \div 60) % 60,
                  sod % 60>>)

\* floor division of a signed second count by the seconds of a day, from
\* the quotient q and remainder r of its magnitude
FloorDays(neg, q, r) == IF ~neg THEN q ELSE IF r = 0 THEN -q ELSE -q - 1

FloorSod(neg, r) == IF ~neg \/ r = 0 THEN r ELSE SECONDS_PER_DAY - r

gmtime_days(days, sod) ==
  IF days < -719468 THEN Raised("ValueError")
  ELSE BrokenDown(CivilFromDays(days), sod)

gmtime_split(neg, qr) ==
  IF BitLen(qr[1]) > 30 THEN Raised("ValueError")
  ELSE gmtime_days(FloorDays(neg, NatOf(qr[1]), qr[2]), FloorSod(neg, qr[2]))

\* gmtime of a signed second count: the broken-down UTC time
\* <<year, month, day, hour, minute, second>>, or ValueError when the year
\* is outside MINYEAR..MAXYEAR (a day count of more than 30 bits is far
\* outside it).
gmtime(secs) == gmtime_split(secs.neg, DivMod(secs.mag, SECONDS_PER_DAY))

\* datetime.utcfromtimestamp(x) for a binary64 x
utcfromtimestamp(x) == gmtime(TimestampSeconds(x))

DigitChar(d) == <<"0", "1", "2", "3", "4", "5", "6", "7", "8", "9">>[d + 1]

RECURSIVE Decimal(_)
\* str(n) for a machine-sized n >= 0
Decimal(n) ==
  IF n < 10 THEN <<DigitChar(n)>> ELSE Append(Decimal(n \div 10), DigitChar(n % 10))

PadLeft(text, width) == [i \in 1..(width - Len(text)) |-> "0"] \o text

\* '%0<width>d' % n
ZeroPad(n, width) == PadLeft(Decimal(n), width)

\* t.strftime('%Y-%m-%d %H:%M:%S (UTC)')
strftime(t) ==
  ZeroPad(t[1], 4) \o <<"-">> \o ZeroPad(t[2], 2) \o <<"-">> \o ZeroPad(t[3], 2)
    \o <<" ">> \o ZeroPad(t[4], 2) \o <<":">> \o ZeroPad(t[5], 2) \o <<":">>
    \o ZeroPad(t[6], 2) \o <<" ", "(", "U", "T", "C", ")">>

----------------------------------------------------------------------------
(* convert_filetime                                                        *)

EPOCH_AS_FILETIME == MulSmall(MulSmall(FromNat(116444736), 1000), 1000000)

HUNDREDS_OF_NANOSECONDS == 10000000

format_time(t) == IF t.exc # "none" THEN t ELSE Returned(strftime(t.val))

\* convert_filetime(ft) for a natural ft: the text, or the exception
\* utcfromtimestamp raises.
convert_filetime(ft) ==
  format_time(utcfromtimestamp(TrueDiv(IntSub(ft, EPOCH_AS_FILETIME),
                                       HUNDREDS_OF_NANOSECONDS)))

----------------------------------------------------------------------------
(* Python values the program stores: integers and text.                    *)

PyInt(n) == [type |-> "int", neg |-> n.neg, mag |-> n.mag, text |-> <<>>]

PyStr(t) == [type |-> "str", neg |-> FALSE, mag |-> <<>>, text |-> t]

\* struct.unpack("<I", b)[0] and struct.unpack("<Q", b)[0]: the bytes of b
\* are the base-256 digits of the value, least significant first.
struct_unpack_le(b) == Norm(b)

\* data[lo:hi]
Slice(data, lo, hi) == SubSeq(data, lo + 1, hi)

\* text.split(sep)[0] for a one-character sep
SplitFirst(text, sep) ==
  IF \A i \in 1..Len(text) : text[i] # sep THEN text
  ELSE SubSeq(text, 1, (CHOOSE i \in 1..Len(text) :
                          text[i] = sep /\ \A j \in 1..(i - 1) : text[j] # sep) - 1)

\* str() of a timedelta of days, seconds and microseconds:
\* '[D day[s], ]H:MM:SS[.ffffff]'
timedelta_text(days, seconds, microseconds) ==
  (IF days = 0 THEN <<>>
   ELSE Decimal(days) \o <<" ", "d", "a", "y">>
          \o (IF days # 1 THEN <<"s">> ELSE <<>>) \o <<",", " ">>)
    \o Decimal(seconds \div 3600) \o <<":">> \o ZeroPad((seconds \div 60) % 60, 2)
    \o <<":">> \o ZeroPad(seconds % 60, 2)
    \o (IF microseconds = 0 THEN <<>> ELSE <<".">> \o ZeroPad(microseconds, 6))

\* the timedelta of total whole seconds and ms further milliseconds
timedelta_of(total, ms) ==
  timedelta_text(total \div SECONDS_PER_DAY, total % SECONDS_PER_DAY, ms * 1000)

timedelta_split(qr) == timedelta_of(NatOf(qr[1]), qr[2])

\* str(timedelta(milliseconds=ms)) for a natural ms below 2^32
timedelta_str(ms) == timedelta_split(DivMod(ms, 1000))

----------------------------------------------------------------------------
(* raw_data_parser                                                         *)

XP_LENGTH == 16

WIN7_LENGTH == 72

RUN_COUNT_BASE == 5

wrap_text(c) == IF c.exc # "none" THEN c ELSE Returned(PyStr(c.val))

\* last_executed of a FILETIME field: '' for 0, else convert_filetime
last_executed_of(ft) ==
  IF ft = <<>> THEN Returned(PyStr(<<>>)) ELSE wrap_text(convert_filetime(ft))

\* focus_time without the split at '.': the fraction of a second is kept
focus_time_unsplit(data) ==
  timedelta_str(struct_unpack_le(Slice(data, 12, 16)))

\* focus_time of a 72-byte value (line 93)
focus_time_of(data) ==
  SplitFirst(timedelta_str(struct_unpack_le(Slice(data, 12, 16))), ".")

\* ua_data.extend([run_count, focus_count, focus_time, last_executed]),
\* unless convert_filetime raised before it
ua_data_of(run_count, focus_count, focus_time, le) ==
  IF le.exc # "none" THEN le
  ELSE Returned(<<run_count, focus_count, focus_time, le.val>>)

\* raw_data_parser(data): the list ua_data, or the exception raised
raw_data_parser(data) ==
  IF Len(data) = XP_LENGTH
  THEN ua_data_of(PyInt(IntSub(struct_unpack_le(Slice(data, 4, 8)),
                               FromNat(RUN_COUNT_BASE))),
                  PyStr(<<>>), PyStr(<<>>),
                  last_executed_of(struct_unpack_le(Slice(data, 8, Len(data)))))
  ELSE IF Len(data) = WIN7_LENGTH
  THEN ua_data_of(PyInt(Int_(FALSE, struct_unpack_le(Slice(data, 4, 8)))),
                  PyInt(Int_(FALSE, struct_unpack_le(Slice(data, 8, 12)))),
                  PyStr(focus_time_of(data)),
                  last_executed_of(struct_unpack_le(Slice(data, 60, 68))))
  ELSE Returned(<<>>)

----------------------------------------------------------------------------
(* resolve_guid and the ROT-13 decoding of value names                     *)

UPPER ==
  <<"A", "B", "C", "D", "E", "F", "G", "H", "I", "J", "K", "L", "M",
    "N", "O", "P", "Q", "R", "S", "T", "U", "V", "W", "X", "Y", "Z">>

LOWER ==
  <<"a", "b", "c", "d", "e", "f", "g", "h", "i", "j", "k", "l", "m",
    "n", "o", "p", "q", "r", "s", "t", "u", "v", "w", "x", "y", "z">>

IndexIn(alphabet, c) == CHOOSE i \in 1..Len(alphabet) : alphabet[i] = c

rot13_char(c) ==
  IF \E i \in 1..Len(UPPER) : UPPER[i] = c
  THEN UPPER[((IndexIn(UPPER, c) + 12) % 26) + 1]
  ELSE IF \E i \in 1..Len(LOWER) : LOWER[i] = c
  THEN LOWER[((IndexIn(LOWER, c) + 12) % 26) + 1]
  ELSE c

\* codecs.encode(name, 'rot-13')
codecs_encode_rot13(name) == [i \in 1..Len(name) |-> rot13_char(name[i])]

\* lib.known_folders.folder_guids: known-folder identifier -> folder name,
\* in the order of the dict's items.
folder_guids ==
  << <<(<<"{", "A", "}">>), (<<"S", "y", "s">>)>>,
     <<(<<"{", "B", "}">>), (<<"P", "F">>)>> >>

RECURSIVE str_replace(_, _, _)
\* text.replace(old, new) for a non-empty old: every occurrence, left to
\* right, not overlapping
str_replace(text, old, new) ==
  IF Len(text) < Len(old) THEN text
  ELSE IF SubSeq(text, 1, Len(old)) = old
  THEN new \o str_replace(SubSeq(text, Len(old) + 1, Len(text)), old, new)
  ELSE <<text[1]>> \o str_replace(Tail(text), old, new)

RECURSIVE resolve_from(_, _)
\* the loop of resolve_guid from item i of folder_guids on
resolve_from(program, i) ==
  IF i > Len(folder_guids) THEN program
  ELSE IF folder_guids[i][1] = SplitFirst(program, "\\")
  THEN str_replace(program, folder_guids[i][1], folder_guids[i][2])
  ELSE resolve_from(program, i + 1)

resolve_guid(program) == resolve_from(program, 1)

----------------------------------------------------------------------------
(* get_key, write_output and main                                          *)

NONE == [kind |-> "None", items |-> <<>>]

List(items) == [kind |-> "list", items |-> items]

UNSET == [kind |-> "unset", items |-> <<>>]

HEADER == <<"Program", "Run Count", "Focus Count", "Focus Time", "Last Executed">>

\* pd_list.append({program: parsed_data}), then the dicts of the later
\* values, unless raw_data_parser raised
append_dict(program, parsed_data, rest) ==
  IF parsed_data.exc # "none" THEN parsed_data
  ELSE IF rest.exc # "none" THEN rest
  ELSE Returned(<<[program |-> program, data |-> parsed_data.val]>> \o rest.val)

RECURSIVE parse_values(_)
\* the loop over the values of one Count key: the dicts appended to
\* pd_list, or the exception raw_data_parser raised
parse_values(values) ==
  IF values = <<>> THEN Returned(<<>>)
  ELSE append_dict(resolve_guid(codecs_encode_rot13(values[1].name)),
                   raw_data_parser(values[1].value),
                   parse_values(Tail(values)))

\* the dicts of one subkey, then those of the later subkeys
extend_list(first, rest) ==
  IF first.exc # "none" THEN first
  ELSE IF rest.exc # "none" THEN rest
  ELSE Returned(first.val \o rest.val)

RECURSIVE parse_subkeys(_)
\* the loop over the GUID subkeys of UserAssist: a subkey whose Count key
\* has no values is skipped
parse_subkeys(subkeys) ==
  IF subkeys = <<>> THEN Returned(<<>>)
  ELSE extend_list(parse_values(subkeys[1]), parse_subkeys(Tail(subkeys)))

RECURSIVE guid_messages(_)
\* the messages printed for the subkeys whose Count key has values, up to
\* the subkey in which raw_data_parser raised
guid_messages(subkeys) ==
  IF subkeys = <<>> THEN <<>>
  ELSE IF subkeys[1] = <<>> THEN guid_messages(Tail(subkeys))
  ELSE <<"Found GUID with values", "Parsing values...">>
         \o (IF parse_values(subkeys[1]).exc # "none" THEN <<>>
             ELSE guid_messages(Tail(subkeys)))

\* the end of get_key when the UserAssist key was found: return pd_list,
\* or the exception that left the loops
found_key(r, messages) ==
  IF r.exc # "none"
  THEN [end |-> "raise", value |-> UNSET, exc |-> r.exc,
        out |-> <<"Found UserAssist">> \o messages]
  ELSE [end |-> "return", value |-> List(r.val), exc |-> "none",
        out |-> <<"Found UserAssist">> \o messages]

\* get_key with the return of pd_list inside the else branch of the try:
\* nothing is returned when the UserAssist key is not found
get_key_return_in_else(h) ==
  IF ~h.regf
  THEN [end |-> "exit", value |-> UNSET, exc |-> "SystemExit", out |-> <<>>]
  ELSE IF h.hive_type = "ntuser.dat"
  THEN IF ~h.has_ua
       THEN [end |-> "return", value |-> NONE, exc |-> "none",
             out |-> <<"UserAssist key not found">>]
       ELSE found_key(parse_subkeys(h.subkeys), guid_messages(h.subkeys))
  ELSE [end |-> "return", value |-> NONE, exc |-> "none",
        out |-> <<"not an NTUSER.DAT file">>]

\* get_key(file): how the call ends (a return, sys.exit or an exception),
\* the value returned and the messages printed
get_key(h) ==
  IF ~h.regf
  THEN [end |-> "exit", value |-> UNSET, exc |-> "SystemExit", out |-> <<>>]
  ELSE IF h.hive_type = "ntuser.dat"
  THEN IF ~h.has_ua
       THEN [end |-> "return", value |-> List(<<>>), exc |-> "none",
             out |-> <<"UserAssist key not found">>]
       ELSE found_key(parse_subkeys(h.subkeys), guid_messages(h.subkeys))
  ELSE [end |-> "return", value |-> NONE, exc |-> "none",
        out |-> <<"not an NTUSER.DAT file">>]

\* the rows write_output writes after the header: one per dict of ua_list
\* whose list of parsed data is not empty
RECURSIVE csv_rows(_)
csv_rows(items) ==
  IF items = <<>> THEN <<>>
  ELSE (IF items[1].data = <<>> THEN <<>>
        ELSE <<<<PyStr(items[1].program), items[1].data[1], items[1].data[2],
                 items[1].data[3], items[1].data[4]>>>>)
       \o csv_rows(Tail(items))

\* write_output(ua_list, out_path): the file is opened for writing and the
\* header written before ua_list is iterated; iterating None raises
write_output(ua_list) ==
  IF ua_list.kind = "list"
  THEN [end |-> "return", exc |-> "none",
        file |-> [exists |-> TRUE, header |-> HEADER, rows |-> csv_rows(ua_list.items)],
        out |-> <<"Output written">>]
  ELSE [end |-> "raise", exc |-> "TypeError",
        file |-> [exists |-> TRUE, header |-> HEADER, rows |-> <<>>],
        out |-> <<>>]

----------------------------------------------------------------------------
(* State.  A run of main: pc is the call main is about to make, hive the   *)
(* file given with -f, out_dir_exists whether the directory given with -o  *)
(* exists, ua_dict the value get_key returned, csv_file the file           *)
(* UserAssist.csv, stdout the messages printed, exc the exception that     *)
(* ended the run.  A single call of a function of the module: call is the  *)
(* function and its argument, called whether it has run, ret its result.   *)

VARIABLES pc, hive, out_dir_exists, ua_dict, csv_file, stdout, exc,
          call, called, ret

vars == <<pc, hive, out_dir_exists, ua_dict, csv_file, stdout, exc,
          call, called, ret>>

run_vars == <<pc, hive, out_dir_exists, ua_dict, csv_file, stdout, exc>>

call_vars == <<call, called, ret>>

----------------------------------------------------------------------------
(* Inputs                                                                  *)

MaxSubkeys == 2

MaxEntries == 3

MaxPieces == 4

\* the natural a as n little-endian bytes
Pad(a, n) == a \o [i \in 1..(n - Len(a)) |-> 0]

\* the FILETIME of ticks 100 ns intervals after second sod of day days,
\* days counted from 1970-01-01, as 8 little-endian bytes
FtAt(days, sod, ticks) ==
  IF days >= 0
  THEN LET secs == Add(MulSmall(FromNat(days), SECONDS_PER_DAY), FromNat(sod))
       IN  Pad(Add(Add(EPOCH_AS_FILETIME, MulSmall(MulSmall(secs, 10000), 1000)),
                   FromNat(ticks)), 8)
  ELSE LET secs == Sub(MulSmall(FromNat(-days), SECONDS_PER_DAY), FromNat(sod))
       IN  Pad(Add(Sub(EPOCH_AS_FILETIME, MulSmall(MulSmall(secs, 10000), 1000)),
                   FromNat(ticks)), 8)

FT_ZERO == <<0, 0, 0, 0, 0, 0, 0, 0>>

FT_MAX == <<255, 255, 255, 255, 255, 255, 255, 255>>

FtInputs ==
  ({FtAt(d, s, t) : d \in {-134774, 0, 18518, 2932896}, s \in {0, 1, 86399},
                    t \in {0, 1, 9999994, 9999995, 9999999}}
     \cup {FT_MAX}) \ {FT_ZERO}

DecodeFtInputs == {FT_ZERO, FtAt(0, 0, 0), FtAt(18518, 44800, 9999999), FT_MAX}

RunCountInputs ==
  {<<0, 0, 0, 0>>, <<4, 0, 0, 0>>, <<5, 0, 0, 0>>, <<6, 0, 0, 0>>,
   <<1, 2, 3, 4>>, <<255, 255, 255, 255>>}

FocusCountInputs == {<<0, 0, 0, 0>>, <<7, 1, 0, 0>>, <<255, 255, 255, 255>>}

FocusTimeInputs ==
  {Pad(FromNat(ms), 4) : ms \in {0, 999, 1000, 1500, 3599999, 86399999,
                                 86400000, 172800999}}
    \cup {<<255, 255, 255, 255>>}

\* a 16-byte value: session, run count, FILETIME
Value16(rc, ft) == <<1, 0, 0, 0>> \o rc \o ft

\* a 72-byte value: session, run count, focus count, focus time, 44 bytes
\* of other fields, FILETIME, 4 bytes
Value72(rc, fc, ms, ft) ==
  <<1, 0, 0, 0>> \o rc \o fc \o ms \o [i \in 1..44 |-> <<0, 0, 128, 191>>[((i - 1) % 4) + 1]]
    \o ft \o <<0, 0, 0, 0>>

ValueInputs ==
  {Value16(rc, ft) : rc \in RunCountInputs, ft \in DecodeFtInputs}
    \cup {Value72(rc, fc, ms, ft) : rc \in {<<0, 0, 0, 0>>, <<6, 0, 0, 0>>, <<255, 255, 255, 255>>},
                                    fc \in FocusCountInputs, ms \in FocusTimeInputs,
                                    ft \in DecodeFtInputs}
    \cup {[i \in 1..n |-> 5] : n \in {0, 8, 15, 17, 71, 73}}

\* the pieces value names are made of, before their ROT-13 encoding
Pieces == {<<"{", "A", "}">>, <<"{", "B", "}">>, <<"{", "a", "}">>, <<"\\">>, <<"x">>}

RECURSIVE NamesOf(_)
NamesOf(n) ==
  IF n = 0 THEN {<<>>}
  ELSE {<<>>} \cup {p \o rest : p \in Pieces, rest \in NamesOf(n - 1)}

NameInputs == {codecs_encode_rot13(name) : name \in NamesOf(MaxPieces)}

\* values of Count keys: a name (ROT-13 encoded) and the raw data
EntryInputs ==
  {[name |-> codecs_encode_rot13(<<"{", "A", "}", "\\", "x">>),
    value |-> Value16(<<6, 0, 0, 0>>, FtAt(18518, 44800, 0))],
   [name |-> codecs_encode_rot13(<<"{", "A", "}", "\\", "x">>),
    value |-> Value72(<<6, 0, 0, 0>>, <<7, 1, 0, 0>>, Pad(FromNat(1500), 4), FT_ZERO)],
   [name |-> codecs_encode_rot13(<<"x">>), value |-> [i \in 1..8 |-> 5]],
   [name |-> codecs_encode_rot13(<<"{", "B", "}", "\\", "x">>),
    value |-> Value16(<<5, 0, 0, 0>>, FT_MAX)]}

RECURSIVE SeqsUpTo(_, _)
\* the sequences of at most n elements of S
SeqsUpTo(S, n) ==
  IF n = 0 THEN {<<>>}
  ELSE {<<>>} \cup {<<x>> \o rest : x \in S, rest \in SeqsUpTo(S, n - 1)}

RECURSIVE SubkeyInputs(_, _)
\* the lists of at most k subkeys holding at most n values together
SubkeyInputs(k, n) ==
  IF k = 0 THEN {<<>>}
  ELSE {<<>>} \cup UNION {{<<values>> \o rest : rest \in SubkeyInputs(k - 1, n - Len(values))} :
                           values \in SeqsUpTo(EntryInputs, n)}

NO_HIVE ==
  [is_file |-> FALSE, regf |-> FALSE, hive_type |-> "unknown", has_ua |-> FALSE,
   subkeys |-> <<>>]

HiveInputs ==
  {NO_HIVE,
   [NO_HIVE EXCEPT !.is_file = TRUE],
   [NO_HIVE EXCEPT !.is_file = TRUE, !.regf = TRUE, !.hive_type = "system"],
   [NO_HIVE EXCEPT !.is_file = TRUE, !.regf = TRUE, !.hive_type = "ntuser.dat"]}
    \cup {[NO_HIVE EXCEPT !.is_file = TRUE, !.regf = TRUE, !.hive_type = "ntuser.dat",
                          !.has_ua = TRUE, !.subkeys = sk] :
            sk \in SubkeyInputs(MaxSubkeys, MaxEntries)}

NO_FILE == [exists |-> FALSE, header |-> <<>>, rows |-> <<>>]

NO_CALL == [fn |-> "none", arg |-> <<>>]

----------------------------------------------------------------------------
(* A run of main                                                           *)

Init ==
  /\ pc = "main"
  /\ hive \in HiveInputs
  /\ out_dir_exists \in BOOLEAN
  /\ ua_dict = UNSET
  /\ csv_file = NO_FILE
  /\ stdout = <<>>
  /\ exc = "none"
  /\ call = NO_CALL
  /\ called = FALSE
  /\ ret = <<>>

\* main up to its call of get_key
Main ==
  /\ pc = "main"
  /\ IF hive.is_file
     THEN pc' = "get_key" /\ stdout' = stdout
     ELSE pc' = "done" /\ stdout' = Append(stdout, "Invalid file path")
  /\ UNCHANGED <<hive, out_dir_exists, ua_dict, csv_file, exc>>
  /\ UNCHANGED call_vars

\* the assignment of what get_key returned, or the end of the run
GetKeyEnds(r) ==
  /\ pc' = IF r.end = "return" THEN "write_output"
           ELSE IF r.end = "exit" THEN "exited" ELSE "raised"
  /\ ua_dict' = r.value
  /\ exc' = r.exc
  /\ stdout' = stdout \o r.out

\* ua_dict = get_key(str(ntuser_path))
GetKey ==
  /\ pc = "get_key"
  /\ GetKeyEnds(get_key(hive))
  /\ UNCHANGED <<hive, out_dir_exists, csv_file>>
  /\ UNCHANGED call_vars

WriteOutputEnds(w) ==
  /\ pc' = IF w.end = "return" THEN "done" ELSE "raised"
  /\ csv_file' = w.file
  /\ exc' = w.exc
  /\ stdout' = stdout \o w.out

\* write_output(ua_dict, args.out)
WriteOutput ==
  /\ pc = "write_output"
  /\ WriteOutputEnds(write_output(ua_dict))
  /\ out_dir_exists' = TRUE
  /\ UNCHANGED <<hive, ua_dict>>
  /\ UNCHANGED call_vars

Next == Main \/ GetKey \/ WriteOutput

Spec == Init /\ [][Next]_vars

----------------------------------------------------------------------------
(* Single calls of raw_data_parser, convert_filetime and resolve_guid      *)

IdleRun ==
  /\ pc = "idle"
  /\ hive = NO_HIVE
  /\ out_dir_exists = FALSE
  /\ ua_dict = UNSET
  /\ csv_file = NO_FILE
  /\ stdout = <<>>
  /\ exc = "none"

InitDecode ==
  /\ IdleRun
  /\ call \in {[fn |-> "raw_data_parser", arg |-> data] : data \in ValueInputs}
  /\ called = FALSE
  /\ ret = <<>>

\* ret = raw_data_parser(data)
CallRawDataParser ==
  /\ call.fn = "raw_data_parser"
  /\ ~called
  /\ called' = TRUE
  /\ ret' = raw_data_parser(call.arg)
  /\ UNCHANGED call
  /\ UNCHANGED run_vars

SpecDecode == InitDecode /\ [][CallRawDataParser]_vars

InitFiletime ==
  /\ IdleRun
  /\ call \in {[fn |-> "convert_filetime", arg |-> <<ft1, ft2>>] :
                 ft1 \in FtInputs, ft2 \in FtInputs}
  /\ called = FALSE
  /\ ret = <<>>

\* ret = convert_filetime(ft), for each of two FILETIME values
CallConvertFiletime ==
  /\ call.fn = "convert_filetime"
  /\ ~called
  /\ called' = TRUE
  /\ ret' = <<convert_filetime(struct_unpack_le(call.arg[1])),
              convert_filetime(struct_unpack_le(call.arg[2]))>>
  /\ UNCHANGED call
  /\ UNCHANGED run_vars

SpecFiletime == InitFiletime /\ [][CallConvertFiletime]_vars

InitResolve ==
  /\ IdleRun
  /\ call \in {[fn |-> "resolve_guid", arg |-> name] : name \in NameInputs}
  /\ called = FALSE
  /\ ret = <<>>

\* ret = resolve_guid(codecs.encode(name, 'rot-13'))
CallResolveGuid ==
  /\ call.fn = "resolve_guid"
  /\ ~called
  /\ called' = TRUE
  /\ ret' = resolve_guid(codecs_encode_rot13(call.arg))
  /\ UNCHANGED call
  /\ UNCHANGED run_vars

SpecResolve == InitResolve /\ [][CallResolveGuid]_vars

----------------------------------------------------------------------------
(* Properties of raw_data_parser, checked under SpecDecode                 *)

\* a call of raw_data_parser with a payload of n bytes has been made
Decoded(n) == call.fn = "raw_data_parser" /\ called /\ Len(call.arg) = n

\* the little-endian unsigned value of bytes[lo:hi] of the payload
FieldAt(data, lo, hi) == Norm(SubSeq(data, lo + 1, hi))

\* v is the integer u - 5, u a natural
IsMinusFive(v, u) ==
  /\ v.type = "int"
  /\ IF Cmp(u, <<5>>) >= 0
     THEN ~v.neg /\ Add(v.mag, <<5>>) = u
     ELSE v.neg /\ Add(u, v.mag) = <<5>>

\* v is the integer u, u a natural
IsUnsigned(v, u) == v.type = "int" /\ ~v.neg /\ v.mag = u

Absent(v) == v.type = "str" /\ v.text = <<>>

\* v is absent for a zero FILETIME and convert_filetime of it otherwise
IsLastExecuted(v, ft) ==
  IF ft = <<>> THEN Absent(v)
  ELSE /\ convert_filetime(ft).exc = "none"
       /\ v.type = "str"
       /\ v.text = convert_filetime(ft).val

\* floor(m / 1000) for the 32-bit m of bytes b, computed in 16-bit halves:
\* m = hi * 65536 + lo and 65536 = 65 * 1000 + 536
WholeSeconds(b) ==
  (b[3] + 256 * b[4]) * 65 + ((b[3] + 256 * b[4]) * 536 + b[1] + 256 * b[2]) \div 1000

TwoDigits(n) == <<DigitChar(n \div 10), DigitChar(n % 10)>>

\* H:MM:SS of secs seconds: unpadded hours, two-digit minutes and seconds
HMS(secs) ==
  Decimal(secs \div 3600) \o <<":">> \o TwoDigits((secs \div 60) % 60)
    \o <<":">> \o TwoDigits(secs % 60)

\* H:MM:SS below one day; from one day on 'D day, ' or 'D days, ' and the
\* H:MM:SS of the seconds left of the last day
DaysHMS(secs) ==
  IF secs < 86400 THEN HMS(secs)
  ELSE Decimal(secs \div 86400) \o <<" ", "d", "a", "y">>
         \o (IF secs \div 86400 = 1 THEN <<>> ELSE <<"s">>) \o <<",", " ">>
         \o HMS(secs % 86400)

\* C1: for every 16-byte payload raw_data_parser returns exactly four
\* fields: run_count is the unsigned 32-bit value of bytes[4:8] minus 5 as
\* a signed integer, focus_count and focus_time are empty, last_executed
\* is empty when the unsigned 64-bit value of bytes[8:16] is zero and
\* convert_filetime of that value otherwise.
C1_Decode16 ==
  Decoded(XP_LENGTH) =>
    /\ ret.exc = "none"
    /\ Len(ret.val) = 4
    /\ IsMinusFive(ret.val[1], FieldAt(call.arg, 4, 8))
    /\ Absent(ret.val[2])
    /\ Absent(ret.val[3])
    /\ IsLastExecuted(ret.val[4], FieldAt(call.arg, 8, 16))

\* C2: for every 72-byte payload raw_data_parser returns exactly four
\* fields: run_count is the unsigned 32-bit value of bytes[4:8] with no
\* adjustment, focus_count the unsigned 32-bit value of bytes[8:12],
\* focus_time the duration text of the milliseconds of bytes[12:16],
\* last_executed is empty when the unsigned 64-bit value of bytes[60:68] is
\* zero and convert_filetime of that value otherwise.
C2_Decode72 ==
  Decoded(WIN7_LENGTH) =>
    /\ ret.exc = "none"
    /\ Len(ret.val) = 4
    /\ IsUnsigned(ret.val[1], FieldAt(call.arg, 4, 8))
    /\ IsUnsigned(ret.val[2], FieldAt(call.arg, 8, 12))
    /\ ret.val[3].type = "str"
    /\ ret.val[3].text = DaysHMS(WholeSeconds(SubSeq(call.arg, 13, 16)))
    /\ IsLastExecuted(ret.val[4], FieldAt(call.arg, 60, 68))

\* C7 as stated: for every 72-byte payload that is decoded, focus_time is
\* the text H:MM:SS of floor(m / 1000) seconds, m the milliseconds of
\* bytes[12:16], also when the duration is 24 hours or longer.
C7_FocusTimeHMS ==
  (Decoded(WIN7_LENGTH) /\ ret.exc = "none") =>
    ret.val[3].text = HMS(WholeSeconds(SubSeq(call.arg, 13, 16)))

\* C7 as amended: for every 72-byte payload, the focus_time computed from
\* the milliseconds m of bytes[12:16] is the text of floor(m / 1000) whole
\* seconds (never rounded up): H:MM:SS below 24 hours, and from 24 hours
\* on 'D day, ' or 'D days, ' followed by the H:MM:SS of the rest; it is
\* the third field returned whenever raw_data_parser returns.
C7_FocusTime ==
  Decoded(WIN7_LENGTH) =>
    /\ focus_time_of(call.arg) = DaysHMS(WholeSeconds(SubSeq(call.arg, 13, 16)))
    /\ ret.exc = "none" =>
         /\ ret.val[3].type = "str"
         /\ ret.val[3].text = DaysHMS(WholeSeconds(SubSeq(call.arg, 13, 16)))

\* a 72-byte payload with a focus time of 24 hours or more and a fraction
\* of a second has been decoded
C7_Witness ==
  /\ Decoded(WIN7_LENGTH)
  /\ ret.exc = "none"
  /\ WholeSeconds(SubSeq(call.arg, 13, 16)) >= 86400
  /\ FieldAt(call.arg, 12, 16) = FromNat(172800999)

----------------------------------------------------------------------------
(* Properties of convert_filetime, checked under SpecFiletime              *)

\* convert_filetime has been called on the two FILETIME values of call.arg
Converted == call.fn = "convert_filetime" /\ called

\* floor((ft - 116444736000000000) / 10000000) as a signed integer
FloorSeconds(ft) ==
  IF Cmp(ft, EPOCH_AS_FILETIME) >= 0
  THEN Int_(FALSE, DivMod(Sub(ft, EPOCH_AS_FILETIME), 10000000)[1])
  ELSE Int_(TRUE, DivMod(Add(Sub(EPOCH_AS_FILETIME, ft), FromNat(9999999)),
                         10000000)[1])

\* the calendar type can represent the whole seconds of ft
Representable(ft) == gmtime(FloorSeconds(ft)).exc = "none"

\* the characters of the calendar strings, in code-point order
CHARACTERS ==
  <<" ", "(", ")", "-", "0", "1", "2", "3", "4", "5", "6", "7", "8", "9",
    ":", "C", "T", "U">>

\* text a sorts strictly before text b
SortsBefore(a, b) ==
  \/ Len(a) < Len(b) /\ SubSeq(b, 1, Len(a)) = a
  \/ \E i \in 1..Min(Len(a), Len(b)) :
       /\ SubSeq(a, 1, i - 1) = SubSeq(b, 1, i - 1)
       /\ IndexIn(CHARACTERS, a[i]) < IndexIn(CHARACTERS, b[i])

\* C3: for every nonzero ft whose result is representable,
\* convert_filetime(ft) is the calendar string of exactly
\* floor((ft - 116444736000000000) / 10000000) whole seconds since 1970:
\* the sub-second remainder never moves the result to the next second.
C3_FloorSeconds ==
  Converted =>
    \A i \in 1..2 :
      Representable(struct_unpack_le(call.arg[i])) =>
        /\ ret[i].exc = "none"
        /\ ret[i].val = strftime(gmtime(FloorSeconds(struct_unpack_le(call.arg[i]))).val)

\* C8: for representable nonzero ft1 < ft2 the string of ft1 never sorts
\* after the string of ft2, and sorts strictly before it whenever the two
\* values fall in different whole seconds.
C8_Monotonic ==
  (/\ Converted
   /\ ret[1].exc = "none"
   /\ ret[2].exc = "none"
   /\ Cmp(struct_unpack_le(call.arg[1]), struct_unpack_le(call.arg[2])) < 0) =>
    /\ ~SortsBefore(ret[2].val, ret[1].val)
    /\ FloorSeconds(struct_unpack_le(call.arg[1]))
           # FloorSeconds(struct_unpack_le(call.arg[2]))
         => SortsBefore(ret[1].val, ret[2].val)

----------------------------------------------------------------------------
(* Properties of resolve_guid, checked under SpecResolve                   *)

\* resolve_guid has been called on the de-obfuscated name of call.arg
Resolved == call.fn = "resolve_guid" /\ called

\* the keys of the known-folder table that are the segment seg
KeysOf(seg) == {i \in 1..Len(folder_guids) : folder_guids[i][1] = seg}

\* program with only its leading segment seg replaced by the folder name
\* mapped to it, when seg is a key
LeadingReplaced(program, seg) ==
  IF KeysOf(seg) = {} THEN program
  ELSE folder_guids[CHOOSE i \in KeysOf(seg) : TRUE][2]
         \o SubSeq(program, Len(seg) + 1, Len(program))

\* C4: resolve_guid substitutes only the leading path segment: when the
\* first backslash-separated segment equals a key of the known-folder
\* table the result is the mapped folder name followed by the rest of the
\* input unchanged, even when the key occurs again later in the path;
\* when the first segment matches no key the input is returned unchanged.
C4_LeadingSegment ==
  Resolved =>
    ret = LeadingReplaced(codecs_encode_rot13(call.arg),
                          SplitFirst(codecs_encode_rot13(call.arg), "\\"))

----------------------------------------------------------------------------
(* Properties of a run of main, checked under Spec                         *)

\* get_key has been called and has ended
AfterGetKey == pc \in {"write_output", "done", "exited", "raised"}

\* the run has ended
Ended == pc \in {"done", "exited", "raised"}

\* the file is a hive of type ntuser.dat
IsNtuser == hive.is_file /\ hive.regf /\ hive.hive_type = "ntuser.dat"

RECURSIVE Flatten(_)
\* the values of the subkeys, in the order of the traversal
Flatten(subkeys) ==
  IF subkeys = <<>> THEN <<>> ELSE subkeys[1] \o Flatten(Tail(subkeys))

Recognized(v) == Len(v.value) \in {XP_LENGTH, WIN7_LENGTH}

\* the FILETIME field of a value of a recognized length
FiletimeOf(v) ==
  IF Len(v.value) = XP_LENGTH THEN FieldAt(v.value, 8, 16)
  ELSE FieldAt(v.value, 60, 68)

\* a value of a recognized length whose nonzero FILETIME is out of the
\* range of the calendar type
OutOfRange(v) ==
  Recognized(v) /\ FiletimeOf(v) # <<>> /\ ~Representable(FiletimeOf(v))

\* rows are the rows of the values of a recognized length, in their order
RowsOf(rows, values) ==
  /\ Len(rows) = Len(SelectSeq(values, Recognized))
  /\ \A j \in 1..Len(rows) :
       /\ Len(rows[j]) = 5
       /\ rows[j][1] =
            PyStr(resolve_guid(codecs_encode_rot13(SelectSeq(values, Recognized)[j].name)))

\* C5: get_key appends exactly one record per value in traversal order
\* (none dropped or merged), and write_output then emits, after the header
\* row, exactly one row for each record whose payload length is 16 or 72
\* and none for any other length, in the order of the traversal.
C5_RecordPerValue ==
  (IsNtuser /\ hive.has_ua) =>
    /\ AfterGetKey =>
         /\ ua_dict.kind = "list"
         /\ Len(ua_dict.items) = Len(Flatten(hive.subkeys))
         /\ \A k \in 1..Len(ua_dict.items) :
              ua_dict.items[k].program =
                resolve_guid(codecs_encode_rot13(Flatten(hive.subkeys)[k].name))
    /\ Ended =>
         /\ csv_file.exists
         /\ csv_file.header = HEADER
         /\ RowsOf(csv_file.rows, Flatten(hive.subkeys))

\* C6: when a 16-byte or 72-byte payload carries a nonzero filetime out of
\* the range of the calendar type, only that record is affected: its
\* last_executed is absent, its other fields are produced, the remaining
\* entries are processed and the run is not aborted.
C6_OutOfRangeLocal ==
  (/\ IsNtuser
   /\ hive.has_ua
   /\ \E k \in 1..Len(Flatten(hive.subkeys)) : OutOfRange(Flatten(hive.subkeys)[k])) =>
    /\ pc # "raised"
    /\ AfterGetKey =>
         /\ ua_dict.kind = "list"
         /\ Len(ua_dict.items) = Len(Flatten(hive.subkeys))
         /\ \A k \in 1..Len(ua_dict.items) :
              OutOfRange(Flatten(hive.subkeys)[k]) =>
                /\ Len(ua_dict.items[k].data) = 4
                /\ Absent(ua_dict.items[k].data[4])

\* C9: when the hive's type is not 'ntuser.dat' the run reports it and
\* ends without output: get_key returns without a record list, no output
\* file is created or written, and the run does not end in an unhandled
\* error.
C9_WrongHiveType ==
  (hive.is_file /\ hive.regf /\ hive.hive_type # "ntuser.dat" /\ AfterGetKey) =>
    /\ stdout = <<"not an NTUSER.DAT file">>
    /\ ua_dict.kind # "list"
    /\ ~csv_file.exists
    /\ pc # "raised"
    /\ exc = "none"

\* C10 as stated: when the hive is an ntuser.dat hive without the
\* UserAssist key, the condition is reported and the run ends with no
\* output file: UserAssist.csv is not created or written and no error is
\* raised.
C10_NoOutputFile ==
  (IsNtuser /\ ~hive.has_ua /\ Ended) =>
    /\ stdout[1] = "UserAssist key not found"
    /\ ~csv_file.exists
    /\ pc = "done"
    /\ exc = "none"

\* C10 as amended: when the hive is an ntuser.dat hive without the
\* UserAssist key, the condition is reported, get_key returns the empty
\* list, and the run ends with no error raised, after write_output has
\* created UserAssist.csv holding the header row and no data row.
C10_HeaderOnlyFile ==
  (IsNtuser /\ ~hive.has_ua) =>
    /\ AfterGetKey =>
         /\ stdout[1] = "UserAssist key not found"
         /\ ua_dict = List(<<>>)
    /\ Ended =>
         /\ pc = "done"
         /\ exc = "none"
         /\ csv_file = [exists |-> TRUE, header |-> HEADER, rows |-> <<>>]

\* the run on an ntuser.dat hive without the UserAssist key has ended and
\* has written the file
C10_Witness ==
  IsNtuser /\ ~hive.has_ua /\ pc = "done" /\ csv_file.exists

====
